---- MODULE Spec2Model ----
(***************************************************************************)
(* ROSCO_toolbox/control_interface.py: class ControllerInterface, the      *)
(* bridge between a simulation driver and a compiled DISCON controller     *)
(* library, exchanging the avrSWAP array through a foreign call.           *)
(*                                                                         *)
(* Numbers.  Python floats (float64) are modelled as fixed-point integers  *)
(* in units of 1/Unit, taken as exact.  numpy float32 is modelled by what  *)
(* astype(np.float32) and a store into a float32 array do: the value is    *)
(* rounded (nearest, ties to even) to F32Bits significant bits.  Scaling   *)
(* by the power of two Unit does not change which values are               *)
(* representable, so whole numbers used by the program (0, 1, 3, 500)      *)
(* stay exact while 0.1 or 2*pi/60 do not, as with the real float32.       *)
(***************************************************************************)
EXTENDS Integers, Sequences, FiniteSets, TLC

(* ---- bounds of the model ---- *)
FracBits == 12
F32Bits == 7
MaxOps == 2

Unit == 2^FracBits

(* whole number n as a fixed-point value *)
Whole(n) == n * Unit

(* float64 product of two non-negative fixed-point values, floor(a*b/Unit), *)
(* computed on the whole and fractional parts to keep the terms small      *)
Mul(a, b) ==
    LET ai == a \div Unit
        af == a % Unit
        bi == b \div Unit
        bf == b % Unit
    IN  ai * bi * Unit + ai * bf + af * bi + (af * bf) \div Unit

RECURSIVE BitLen(_)
BitLen(n) == IF n = 0 THEN 0 ELSE 1 + BitLen(n \div 2)

Abs(x) == IF x < 0 THEN 0 - x ELSE x

(* np.float32(x): keep F32Bits significant bits, round to nearest, ties to even *)
F32(x) ==
    IF x = 0 THEN 0
    ELSE LET n  == Abs(x)
             bl == BitLen(n)
             q  == IF bl > F32Bits THEN 2^(bl - F32Bits) ELSE 1
             lo == (n \div q) * q
             r  == n - lo
             up == IF 2 * r > q THEN TRUE
                   ELSE IF 2 * r < q THEN FALSE
                   ELSE (lo \div q) % 2 = 1
             m  == IF up THEN lo + q ELSE lo
         IN  IF x < 0 THEN 0 - m ELSE m

(* ---- module constants, lines 18-20 ---- *)
Pi == (355 * Unit) \div 113
deg2rad == Pi \div 180
rpm2RadSec == (2 * Pi) \div 60

(* ---- "Temp fixed parameters", lines 55-58 ---- *)
DT == Unit \div 10
num_blade == 3
char_buffer == 500
avr_size == 500

Slots == 0 .. (avr_size - 1)

(* np.zeros(avr_size) *)
Zeros == [s \in Slots |-> 0]

(* arr[i] = v on a numpy array of the given dtype *)
setitem(dtype, v) == IF dtype = "float32" THEN F32(v) ELSE v

(* arr.astype(np.float32) *)
astype_float32(arr) == [s \in Slots |-> F32(arr[s])]

(***************************************************************************)
(* Inputs                                                                  *)
(***************************************************************************)
(* constructor arguments; gearbox is WE_GearboxRatio as written in the     *)
(* parameter file, lib_ok / param_ok say whether the library can be loaded *)
(* and the parameter file can be read                                      *)
CtorArgs ==
    [ param_filename  : {"DISCON.IN"},
      wind_speed_init : {Whole(10)},
      rotor_rpm_init  : {Whole(4), Whole(5)},
      yaw_init        : {0, Whole(90)},
      yaw_error_init  : {0},
      gearbox         : {Whole(1), Whole(97)},
      lib_ok          : BOOLEAN,
      param_ok        : BOOLEAN ]

Fields == {"t", "dt", "bld_pitch", "gen_speed", "gen_torque", "gen_eff",
           "rot_speed", "ws", "Yaw_fromNorth", "Y_MeasErr"}

ts1 == [f \in Fields |->
          CASE f = "t"         -> DT
            [] f = "dt"        -> DT
            [] f = "bld_pitch" -> Unit \div 3
            [] f = "gen_speed" -> Whole(40)
            [] f = "gen_torque" -> Whole(7)
            [] f = "gen_eff"   -> (Unit * 9) \div 10
            [] f = "rot_speed" -> Mul(Whole(4), rpm2RadSec)
            [] f = "ws"        -> Whole(11)
            [] f = "Yaw_fromNorth" -> Whole(2)
            [] OTHER           -> Whole(1) ]

ts2 == [f \in Fields |->
          CASE f = "t"         -> 2 * DT
            [] f = "dt"        -> DT
            [] f = "gen_eff"   -> Whole(1)
            [] f = "ws"        -> Whole(9)
            [] OTHER           -> 0 ]

(* dict without some keys *)
Without(ts, keys) == [f \in (DOMAIN ts) \ keys |-> ts[f]]

TurbineStates ==
    { ts1, ts2, Without(ts1, {"ws"}), Without(ts2, {"gen_torque", "Y_MeasErr"}),
      Without(ts2, {"t"}) }

(* What the foreign routine does in one invocation: the slots it stores    *)
(* to (a partial map slot -> float32 value) and what it does with the      *)
(* status flag and the message buffer ("keep" = leaves them alone).        *)
NoWrites == [s \in {} |-> 0]

Out1 == (41 :> F32(Unit \div 10) @@ 46 :> F32(Whole(1000)) @@ 47 :> F32(Unit \div 100))
Out2 == (41 :> F32(Unit \div 4) @@ 46 :> F32(Whole(3)) @@ 47 :> 0)

StatusKeep == [set |-> FALSE, flag |-> 0, msg |-> ""]
StatusOK   == [set |-> TRUE,  flag |-> 0, msg |-> ""]
StatusFail == [set |-> TRUE,  flag |-> 0 - 1, msg |-> "ERROR"]

ForeignBehaviours ==
    { [writes |-> NoWrites,                        status |-> StatusKeep],
      [writes |-> Out1,                            status |-> StatusOK],
      [writes |-> Out1 @@ (100 :> F32(DT)),        status |-> StatusFail],
      [writes |-> Out2 @@ (0 :> 0),                status |-> StatusOK],
      [writes |-> (0 :> Whole(2)),                 status |-> StatusFail] }

(***************************************************************************)
(* State                                                                   *)
(***************************************************************************)
VARIABLES
    pc,           \* "new": no constructor call yet; "ready": Adapter exists; "failed": constructor raised
    attrs,        \* names of the attributes assigned on self
    param_name,   \* self.param_name
    avrSWAP,      \* self.avrSWAP
    dtype,        \* self.avrSWAP.dtype
    pitch, torque, nac_yawrate,
    aviFAIL,      \* self.aviFAIL.value
    avcMSG,       \* self.avcMSG.value
    stdout,       \* what the last show_control_values printed
    \* ---- record of the calls made (history) ----
    args,         \* arguments of the constructor call
    err,          \* exception the last operation raised, "none" if it returned
    op,           \* last operation of the driver
    ret,          \* value returned by the last call_controller that returned
    ncalls,       \* number of invocations of DISCON so far
    nadv,         \* number of call_controller calls so far
    nret,         \* number of call_controller calls that returned
    nops,         \* number of operations since construction
    pre,          \* self.avrSWAP immediately before the last call_discon
    passed,       \* array handed to DISCON in its last invocation, as at entry
    post,         \* self.avrSWAP immediately after the last call_discon
    fbeh,         \* what DISCON did in its last invocation
    state_in,     \* turbine_state of the last call_controller
    written,      \* slots assigned by the last call_controller before its invocation
    reads         \* slots read by the last call_controller after its invocation

vars == << pc, attrs, param_name, avrSWAP, dtype, pitch, torque, nac_yawrate,
           aviFAIL, avcMSG, stdout, args, err, op, ret, ncalls, nadv, nret, nops,
           pre, passed, post, fbeh, state_in, written, reads >>

NoBehaviour == [writes |-> NoWrites, status |-> StatusKeep]

NoArgs == [ param_filename |-> "", wind_speed_init |-> 0, rotor_rpm_init |-> 0,
            yaw_init |-> 0, yaw_error_init |-> 0, gearbox |-> 0,
            lib_ok |-> FALSE, param_ok |-> FALSE ]

Init ==
    /\ pc = "new"
    /\ attrs = {}
    /\ param_name = ""
    /\ avrSWAP = Zeros
    /\ dtype = "float64"
    /\ pitch = 0 /\ torque = 0 /\ nac_yawrate = 0
    /\ aviFAIL = 0
    /\ avcMSG = ""
    /\ stdout = << >>
    /\ args = NoArgs
    /\ err = "none"
    /\ op = "none"
    /\ ret = << >>
    /\ ncalls = 0 /\ nadv = 0 /\ nret = 0 /\ nops = 0
    /\ pre = Zeros /\ passed = Zeros /\ post = Zeros
    /\ fbeh = NoBehaviour
    /\ state_in = << >>
    /\ written = {}
    /\ reads = {}

(***************************************************************************)
(* Construction, __init__ (lines 39-96)                                    *)
(***************************************************************************)
(* fp.read_DISCON(param_filename): the parameters of the file, or an error *)
read_DISCON(a) ==
    IF a.param_ok
    THEN [raised |-> "none", params |-> [WE_GearboxRatio |-> a.gearbox]]
    ELSE [raised |-> "ConfigReadError", params |-> [WE_GearboxRatio |-> 0]]

(* cdll.LoadLibrary(self.lib_name) *)
LoadLibrary(a) == IF a.lib_ok THEN "none" ELSE "LibraryLoadError"

ConstructionError_LibraryFirst(a) ==
    IF LoadLibrary(a) # "none" THEN LoadLibrary(a)
    ELSE read_DISCON(a).raised

(* the exception the constructor raises before it reaches call_discon:     *)
(* read_DISCON is line 48, LoadLibrary is line 64                          *)
ConstructionError(a) ==
    IF read_DISCON(a).raised # "none" THEN read_DISCON(a).raised
    ELSE LoadLibrary(a)

InitBuffer_NoGearbox(a, discon_params) ==
    [ Zeros EXCEPT
        ![2]  = DT,
        ![60] = Whole(num_blade),
        ![19] = Mul(a.rotor_rpm_init, rpm2RadSec),
        ![20] = Mul(a.rotor_rpm_init, rpm2RadSec),
        ![23] = a.yaw_error_init,
        ![26] = a.wind_speed_init,
        ![36] = Mul(a.yaw_init, deg2rad),
        ![48] = Whole(char_buffer),
        ![49] = Whole(Len(a.param_filename)),
        ![50] = Whole(char_buffer),
        ![51] = Whole(char_buffer) ]

(* self.avrSWAP after lines 65-83, a float64 array *)
InitBuffer(a, discon_params) ==
    [ Zeros EXCEPT
        ![2]  = DT,
        ![60] = Whole(num_blade),
        ![19] = Mul(Mul(a.rotor_rpm_init, rpm2RadSec), discon_params.WE_GearboxRatio),
        ![20] = Mul(a.rotor_rpm_init, rpm2RadSec),
        ![23] = a.yaw_error_init,
        ![26] = a.wind_speed_init,
        ![36] = Mul(a.yaw_init, deg2rad),
        ![0]  = 0,
        ![48] = Whole(char_buffer),
        ![49] = Whole(Len(a.param_filename)),
        ![50] = Whole(char_buffer),
        ![51] = Whole(char_buffer) ]

(***************************************************************************)
(* call_discon (lines 99-112)                                              *)
(***************************************************************************)
(* the foreign routine: stores into the array it was handed, and into the  *)
(* status flag and the message buffer it was given by reference            *)
DISCON(data, flag, msg, f) ==
    [ data |-> f.writes @@ data,
      flag |-> IF f.status.set THEN f.status.flag ELSE flag,
      msg  |-> IF f.status.set THEN f.status.msg ELSE msg ]

(* variants of call_discon with a plausible slip each *)
call_discon_NoPushBack(buf, flag, msg, f) ==
    LET data == astype_float32(buf)
        out  == DISCON(data, flag, msg, f)
    IN  [ avrSWAP |-> buf,
          dtype   |-> "float64",
          aviFAIL |-> out.flag,
          avcMSG  |-> out.msg,
          calls   |-> << data >> ]

call_discon_FlagByValue(buf, flag, msg, f) ==
    LET data == astype_float32(buf)
        out  == DISCON(data, flag, msg, f)
    IN  [ avrSWAP |-> out.data,
          dtype   |-> "float32",
          aviFAIL |-> flag,
          avcMSG  |-> msg,
          calls   |-> << data >> ]

call_discon_Retry(buf, flag, msg, f) ==
    LET data == astype_float32(buf)
        out  == DISCON(data, flag, msg, f)
        again == DISCON(out.data, out.flag, out.msg, f)
    IN  IF out.flag < 0
        THEN [ avrSWAP |-> again.data, dtype |-> "float32", aviFAIL |-> again.flag,
               avcMSG |-> again.msg, calls |-> << data, out.data >> ]
        ELSE [ avrSWAP |-> out.data, dtype |-> "float32", aviFAIL |-> out.flag,
               avcMSG |-> out.msg, calls |-> << data >> ]

(* Convert, invoke, push back.  calls is the sequence of arrays handed to  *)
(* DISCON, one per invocation.                                             *)
call_discon(buf, flag, msg, f) ==
    LET data == astype_float32(buf)
        out  == DISCON(data, flag, msg, f)
    IN  [ avrSWAP |-> out.data,
          dtype   |-> "float32",
          aviFAIL |-> out.flag,
          avcMSG  |-> out.msg,
          calls   |-> << data >> ]

(***************************************************************************)
(* call_controller (lines 115-168)                                         *)
(***************************************************************************)
InputStmts_Slot34 ==
    << [slot |-> 1,  keys |-> <<"t">>],
       [slot |-> 2,  keys |-> <<"dt">>],
       [slot |-> 3,  keys |-> <<"bld_pitch">>],
       [slot |-> 32, keys |-> <<"bld_pitch">>],
       [slot |-> 34, keys |-> <<"bld_pitch">>],
       [slot |-> 14, keys |-> <<"gen_speed", "gen_torque", "gen_eff">>],
       [slot |-> 22, keys |-> <<"gen_torque">>],
       [slot |-> 19, keys |-> <<"gen_speed">>],
       [slot |-> 20, keys |-> <<"rot_speed">>],
       [slot |-> 26, keys |-> <<"ws">>],
       [slot |-> 36, keys |-> <<"Yaw_fromNorth">>],
       [slot |-> 23, keys |-> <<"Y_MeasErr">>] >>

(* the assignments of lines 143-154 in program order: the slot stored to   *)
(* and the keys of turbine_state the right-hand side looks up              *)
InputStmts ==
    << [slot |-> 1,  keys |-> <<"t">>],
       [slot |-> 2,  keys |-> <<"dt">>],
       [slot |-> 3,  keys |-> <<"bld_pitch">>],
       [slot |-> 32, keys |-> <<"bld_pitch">>],
       [slot |-> 33, keys |-> <<"bld_pitch">>],
       [slot |-> 14, keys |-> <<"gen_speed", "gen_torque", "gen_eff">>],
       [slot |-> 22, keys |-> <<"gen_torque">>],
       [slot |-> 19, keys |-> <<"gen_speed">>],
       [slot |-> 20, keys |-> <<"rot_speed">>],
       [slot |-> 26, keys |-> <<"ws">>],
       [slot |-> 36, keys |-> <<"Yaw_fromNorth">>],
       [slot |-> 23, keys |-> <<"Y_MeasErr">>] >>

Range(q) == { q[i] : i \in DOMAIN q }

(* right-hand side of an assignment: a single key, or the product of three *)
StmtValue(st, ts) ==
    IF Len(st.keys) = 1 THEN ts[st.keys[1]]
    ELSE Mul(Mul(ts[st.keys[1]], ts[st.keys[2]]), ts[st.keys[3]])

(* number of assignments executed before a missing key raises KeyError *)
Executed(ts) ==
    LET bad == { i \in DOMAIN InputStmts : ~ (Range(InputStmts[i].keys) \subseteq DOMAIN ts) }
    IN  IF bad = {} THEN Len(InputStmts)
        ELSE (CHOOSE i \in bad : \A j \in bad : i <= j) - 1

WrittenSlots(ts) == { InputStmts[i].slot : i \in 1 .. Executed(ts) }

(* self.avrSWAP after assignments i .. n, executed in order *)
RECURSIVE ExecStmts(_, _, _, _, _)
ExecStmts(buf, dt, ts, i, n) ==
    IF i > n THEN buf
    ELSE ExecStmts([buf EXCEPT ![InputStmts[i].slot] = setitem(dt, StmtValue(InputStmts[i], ts))],
                   dt, ts, i + 1, n)

(* self.avrSWAP after the assignments that were executed *)
WriteInputs(buf, dt, ts) == ExecStmts(buf, dt, ts, 1, Executed(ts))

(* lines 160-162: the slot each output attribute is read from *)
OutSlot == [pitch |-> 41, torque |-> 46, nac_yawrate |-> 47]

ReturnValue_PitchFirst(o) == << o.pitch, o.torque, o.nac_yawrate >>

(* line 168: the returned tuple *)
ReturnValue(o) == << o.torque, o.pitch, o.nac_yawrate >>

(***************************************************************************)
(* Operations of the driver                                                *)
(***************************************************************************)
CtorAttrs == {"lib_name", "param_name", "DT", "num_blade", "char_buffer", "avr_size",
              "pitch", "torque", "discon", "avrSWAP", "aviFAIL", "accINFILE",
              "avcOUTNAME", "avcMSG"}

(* ControllerInterface(lib_name, param_filename, ...) *)
Construct ==
    /\ pc = "new"
    /\ \E a \in CtorArgs, f \in ForeignBehaviours :
         LET e == ConstructionError(a) IN
         /\ args' = a
         /\ op' = "__init__"
         /\ err' = e
         /\ IF e # "none"
            THEN /\ pc' = "failed"
                 /\ UNCHANGED << attrs, param_name, avrSWAP, dtype, pitch, torque,
                                 nac_yawrate, aviFAIL, avcMSG, ncalls, pre, passed,
                                 post, fbeh >>
            ELSE \E buf0 \in {InitBuffer(a, read_DISCON(a).params)} :
                 \E r \in {call_discon(buf0, 0, "", f)} :
                     /\ pc' = "ready"
                     /\ attrs' = CtorAttrs
                     /\ param_name' = a.param_filename
                     /\ pitch' = 0
                     /\ torque' = 0
                     /\ UNCHANGED nac_yawrate
                     /\ aviFAIL' = r.aviFAIL
                     /\ avcMSG' = r.avcMSG
                     /\ dtype' = r.dtype
                     /\ avrSWAP' = [r.avrSWAP EXCEPT ![0] = setitem(r.dtype, Whole(1))]
                     /\ ncalls' = ncalls + Len(r.calls)
                     /\ pre' = buf0
                     /\ passed' = r.calls[Len(r.calls)]
                     /\ post' = r.avrSWAP
                     /\ fbeh' = f
    /\ UNCHANGED << stdout, ret, nadv, nret, nops, state_in, written, reads >>

call_controller ==
    /\ pc = "ready"
    /\ nops < MaxOps
    /\ nops' = nops + 1
    /\ \E turbine_state \in TurbineStates, f \in ForeignBehaviours :
         \E buf1 \in {WriteInputs(avrSWAP, dtype, turbine_state)} :
         /\ op' = "call_controller"
         /\ nadv' = nadv + 1
         /\ state_in' = turbine_state
         /\ written' = WrittenSlots(turbine_state)
         /\ IF Executed(turbine_state) < Len(InputStmts)
            THEN /\ err' = "KeyError"
                 /\ avrSWAP' = buf1
                 /\ reads' = {}
                 /\ UNCHANGED << attrs, dtype, pitch, torque, nac_yawrate, aviFAIL,
                                 avcMSG, ret, ncalls, nret, pre, passed, post, fbeh >>
            ELSE \E r \in {call_discon(buf1, aviFAIL, avcMSG, f)} :
                 LET o == [k \in DOMAIN OutSlot |-> r.avrSWAP[OutSlot[k]]] IN
                     /\ err' = "none"
                     /\ avrSWAP' = r.avrSWAP
                     /\ dtype' = r.dtype
                     /\ aviFAIL' = r.aviFAIL
                     /\ avcMSG' = r.avcMSG
                     /\ pitch' = o.pitch
                     /\ torque' = o.torque
                     /\ nac_yawrate' = o.nac_yawrate
                     /\ attrs' = attrs \cup {"nac_yawrate"}
                     /\ reads' = { OutSlot[k] : k \in DOMAIN OutSlot }
                     /\ ret' = ReturnValue(o)
                     /\ nret' = nret + 1
                     /\ ncalls' = ncalls + Len(r.calls)
                     /\ pre' = buf1
                     /\ passed' = r.calls[Len(r.calls)]
                     /\ post' = r.avrSWAP
                     /\ fbeh' = f
    /\ UNCHANGED << pc, param_name, stdout, args >>

(* lines 170-175: prints self.pitch and self.torque *)
show_control_values ==
    /\ pc = "ready"
    /\ nops < MaxOps
    /\ nops' = nops + 1
    /\ stdout' = << "Pitch", pitch, "Torque", torque >>
    /\ op' = "show_control_values"
    /\ err' = "none"
    /\ UNCHANGED << pc, attrs, param_name, avrSWAP, dtype, pitch, torque, nac_yawrate,
                    aviFAIL, avcMSG, args, ret, ncalls, nadv, nret, pre, passed,
                    post, fbeh, state_in, written, reads >>

Next == Construct \/ call_controller \/ show_control_values

Spec == Init /\ [][Next]_vars

(***************************************************************************)
(* Properties                                                              *)
(***************************************************************************)
Returned == op = "call_controller" /\ err = "none"
Constructed == op = "__init__" /\ err = "none"
Untouched == Slots \ DOMAIN fbeh.writes

(* C1: the call-phase marker (slot 0) of the array handed to DISCON is 0   *)
(* in the invocation made by the constructor and 1 in the invocation made  *)
(* by every later call_controller, whatever DISCON stores into the array.  *)
C1_PhaseMarker ==
    /\ (ncalls = 1 => passed[0] = 0)
    /\ (ncalls >= 2 => passed[0] = Whole(1))

(* C2: a call_controller that returns, returns (torque, pitch, yaw rate) = *)
(* (slot 46, slot 41, slot 47) of the array as it stands after that call's *)
(* invocation; when DISCON stored (a, b, c) into 41/46/47 in that          *)
(* invocation the call returns (b, a, c).                                  *)
C2_ReturnsOutputs ==
    Returned =>
        /\ ret = << post[46], post[41], post[47] >>
        /\ ({41, 46, 47} \subseteq DOMAIN fbeh.writes =>
               ret = << fbeh.writes[46], fbeh.writes[41], fbeh.writes[47] >>)

C2_Witness ==
    /\ Returned
    /\ fbeh.writes = Out1
    /\ ret = << F32(Whole(1000)), F32(Unit \div 10), F32(Unit \div 100) >>

C3_Slots == {1, 2, 3, 14, 19, 20, 22, 23, 26, 32, 33, 36}

(* C3 as stated: a call_controller that returns has assigned exactly ten   *)
(* slots before its invocation and read exactly slots 41, 46, 47 after it. *)
C3_TenSlots ==
    Returned => Cardinality(written) = 10 /\ reads = {41, 46, 47}

(* C3 amended: a call_controller that returns has assigned exactly the     *)
(* twelve slots 1, 2, 3, 14, 19, 20, 22, 23, 26, 32, 33, 36 before its     *)
(* invocation, every other slot is at the invocation as it was at entry,   *)
(* and it has read exactly slots 41, 46, 47 after the invocation.          *)
C3_TwelveSlots ==
    [][ (op' = "call_controller" /\ err' = "none") =>
           /\ written' = C3_Slots
           /\ \A s \in Slots \ C3_Slots : pre'[s] = avrSWAP[s] /\ passed'[s] = avrSWAP[s]
           /\ reads' = {41, 46, 47} ]_vars

C3_Witness ==
    /\ Returned
    /\ written = C3_Slots
    /\ state_in = ts1
    /\ pre[26] = F32(Whole(11))
    /\ pre[100] # 0

(* C4 as stated: after every invocation, each slot DISCON did not store to *)
(* holds the value self.avrSWAP held immediately before call_discon.       *)
C4_RoundTripExact ==
    ncalls >= 1 => \A s \in Untouched : post[s] = pre[s]

(* C4 amended: after every invocation, each slot DISCON did not store to   *)
(* holds the float32 rounding of the value self.avrSWAP held immediately   *)
(* before call_discon; for every invocation after the constructor's that   *)
(* is the same value.                                                      *)
C4_RoundTripF32 ==
    ncalls >= 1 =>
        \A s \in Untouched :
            /\ post[s] = F32(pre[s])
            /\ (ncalls >= 2 => post[s] = pre[s])

C4_Witness ==
    /\ ncalls >= 2
    /\ fbeh.writes # NoWrites
    /\ 1 \in Untouched /\ pre[1] # 0 /\ post[1] = pre[1]
    /\ post[2] # DT

(* C5: when DISCON sets the status flag and the message in an invocation,  *)
(* the constructor or call_controller returns normally and the Adapter's   *)
(* aviFAIL and avcMSG hold that flag and that message afterwards, so a     *)
(* negative flag is seen as negative and a non-negative one as such.       *)
C5_FailureObservable ==
    (ncalls >= 1 /\ fbeh.status.set) =>
        /\ pc = "ready"
        /\ {"aviFAIL", "avcMSG"} \subseteq attrs
        /\ aviFAIL = fbeh.status.flag
        /\ avcMSG = fbeh.status.msg
        /\ (aviFAIL < 0 <=> fbeh.status.flag < 0)

C5_Witness ==
    /\ Returned
    /\ ncalls = 2
    /\ fbeh.status = StatusFail
    /\ aviFAIL < 0 /\ avcMSG = "ERROR"

(* C6: after a call_controller, either all its input slots were assigned   *)
(* and DISCON was invoked, or no slot was assigned and DISCON was not      *)
(* invoked.                                                                *)
C6_NoPartialWrites ==
    op = "call_controller" =>
        \/ err = "none" /\ written = C3_Slots
        \/ err # "none" /\ written = {}

(* C7 as stated: in the array handed to DISCON by the constructor, slot 19 *)
(* is rotor_rpm_init * rpm2RadSec * WE_GearboxRatio, slot 20 is            *)
(* rotor_rpm_init * rpm2RadSec and slot 36 is yaw_init * deg2rad.          *)
C7_InitExact ==
    Constructed =>
        /\ passed[19] = Mul(Mul(args.rotor_rpm_init, rpm2RadSec), args.gearbox)
        /\ passed[20] = Mul(args.rotor_rpm_init, rpm2RadSec)
        /\ passed[36] = Mul(args.yaw_init, deg2rad)

(* C7 amended: in the array handed to DISCON by the constructor, slots 19, *)
(* 20 and 36 are the float32 roundings of those three values; the          *)
(* Adapter's own float64 array holds the values themselves immediately     *)
(* before that invocation.                                                 *)
C7_InitF32 ==
    Constructed =>
        /\ pre[19] = Mul(Mul(args.rotor_rpm_init, rpm2RadSec), args.gearbox)
        /\ pre[20] = Mul(args.rotor_rpm_init, rpm2RadSec)
        /\ pre[36] = Mul(args.yaw_init, deg2rad)
        /\ passed[19] = F32(Mul(Mul(args.rotor_rpm_init, rpm2RadSec), args.gearbox))
        /\ passed[20] = F32(Mul(args.rotor_rpm_init, rpm2RadSec))
        /\ passed[36] = F32(Mul(args.yaw_init, deg2rad))

C7_Witness ==
    /\ Constructed
    /\ args.gearbox = Whole(97)
    /\ args.yaw_init = Whole(90)
    /\ passed[19] # pre[19] /\ passed[19] # passed[20]
    /\ passed[36] # 0

(* C8 as stated: whenever the library cannot be loaded the constructor     *)
(* fails with the library-load error, and a failed construction has made   *)
(* no invocation and created no Adapter.                                   *)
C8_LibraryFirst ==
    /\ (op = "__init__" /\ ~ args.lib_ok => err = "LibraryLoadError")
    /\ (pc = "failed" => ncalls = 0 /\ attrs = {})

(* C8 amended: the parameter file is read before the library is loaded:    *)
(* whenever the file cannot be read the constructor fails with the         *)
(* config-read error, whatever the state of the library; when the file can *)
(* be read and the library cannot be loaded it fails with the library-load *)
(* error; a failed construction has made no invocation and created no      *)
(* Adapter.                                                                *)
C8_ParamFileFirst ==
    /\ (op = "__init__" /\ ~ args.param_ok => err = "ConfigReadError" /\ pc = "failed")
    /\ (op = "__init__" /\ args.param_ok /\ ~ args.lib_ok =>
            err = "LibraryLoadError" /\ pc = "failed")
    /\ (pc = "failed" => ncalls = 0 /\ attrs = {})

C8_Witness ==
    /\ pc = "failed"
    /\ ~ args.lib_ok /\ ~ args.param_ok
    /\ err = "ConfigReadError"

(* C9: once the Adapter exists its torque, pitch and nac_yawrate are all   *)
(* defined; after a call_controller has returned they are the triple last  *)
(* returned; show_control_values reports the three of them.                *)
C9_LastOutputDefined ==
    pc = "ready" =>
        /\ {"torque", "pitch", "nac_yawrate"} \subseteq attrs
        /\ (nret >= 1 => ret = << torque, pitch, nac_yawrate >>)
        /\ (op = "show_control_values" =>
               stdout = << "Pitch", pitch, "Torque", torque, "Nac_yawrate", nac_yawrate >>)

====
